---- MODULE Spec2Model ----
(***************************************************************************)
(* Model of src/interactions.py: the Interactions object, its two          *)
(* windowing operations to_sequence and to_newsequence, and the            *)
(* SequenceInteractions tables they install in the slots `sequences` and   *)
(* `test_sequences`.                                                       *)
(*                                                                         *)
(* Conventions.                                                            *)
(*  - A numpy 1-D array is a TLA+ sequence; positions in the source are    *)
(*    0-based, positions in the model are 1-based.                         *)
(*  - A numpy n-D array is a record [shape, rows]: shape is the tuple      *)
(*    numpy reports and rows the sequence of its rows.                     *)
(*  - An optional value (Python None or a value) is <<>> or <<value>>.     *)
(*  - User u of the source is entry u + 1 of user_item_sequence.           *)
(*  - An element of a user id array is a cell: <<v>> once v has been       *)
(*    written to it, <<>> while it is what np.empty allocated and nothing  *)
(*    has written. An unwritten cell holds an arbitrary int64, each cell   *)
(*    its own; what is stated of a table is stated for every value its     *)
(*    unwritten cells may hold.                                            *)
(***************************************************************************)
EXTENDS Integers, Sequences, FiniteSets, TLC

\* ------------------------------------------------------------------ bounds
NumUsers == 2
MaxHist == 3
MaxL == 3
MaxT == 2

\* The arguments offered to the two operations; 0 is the invalid one.
ArgL == 0..MaxL
ArgT == 0..MaxT

\* The logs an object is built from: user u (1-based here) has a history of
\* any length up to MaxHist, made of item ids >= 1 that occur nowhere else in
\* the log, so that every position of every history is recognisable.
LogOf(lens) ==
  [u \in 1..NumUsers |-> [k \in 1..lens[u] |-> (u - 1) * MaxHist + k]]

Logs == {LogOf(lens) : lens \in [1..NumUsers -> 0..MaxHist]}

\* ------------------------------------------------------------ numpy helpers
Min(a, b) == IF a < b THEN a ELSE b
Max(a, b) == IF a > b THEN a ELSE b

Zeros(n) == [i \in 1..n |-> 0]

\* Python's normalisation of a slice bound i against a length n.
PyIdx(n, i) == IF i < 0 THEN Max(n + i, 0) ELSE Min(i, n)

\* s[a:b]
PySlice(s, a, b) ==
  LET lo == PyIdx(Len(s), a)
      hi == PyIdx(Len(s), b)
  IN  IF hi <= lo THEN <<>> ELSE SubSeq(s, lo + 1, hi)

\* s[a:]
PyFrom(s, a) == PySlice(s, a, Len(s))

\* s[:b]
PyUpTo(s, b) == PySlice(s, 0, b)

\* np.pad(s, (0, after), 'constant') raises ValueError on a negative width.
NpPadRaises(after) == after < 0
NpPad(s, after) == s \o Zeros(after)

\* dst[:] = src for a row dst of width w: numpy broadcasts a source of the
\* same length or of length 1, and raises ValueError otherwise.
AssignRaises(w, src) == Len(src) # w /\ Len(src) # 1
AssignRow(w, src) == IF Len(src) = w THEN src ELSE [i \in 1..w |-> src[1]]

\* np.zeros((n, w)) raises ValueError on a negative dimension.
NpZerosRaises(n, w) == n < 0 \/ w < 0
NpZeros(n, w) == [shape |-> <<n, w>>, rows |-> [i \in 1..n |-> Zeros(w)]]

\* np.empty(n): n cells, none of them written.
NpEmpty(n) == [i \in 1..n |-> <<>>]

\* The cell that holds v.
Written(v) == <<v>>

\* np.array(rows) of a list of equal-width 1-D arrays; the empty list gives
\* the 1-D array of shape (0,).
NpArray(rows) ==
  IF Len(rows) = 0 THEN [shape |-> <<0>>, rows |-> <<>>]
  ELSE [shape |-> <<Len(rows), Len(rows[1])>>, rows |-> rows]

\* np.any(x): False for None, otherwise whether some entry is non-zero.
NpAny(opt) ==
  /\ Len(opt) = 1
  /\ \E i \in 1..Len(opt[1].rows) :
       \E j \in 1..Len(opt[1].rows[i]) : opt[1].rows[i][j] # 0

\* -------------------------------------------------- Interactions.__init__
RECURSIVE FlattenUsers(_, _)
FlattenUsers(uis, uid) ==
  IF uid >= Len(uis) THEN <<>>
  ELSE [i \in 1..Len(uis[uid + 1]) |-> uid] \o FlattenUsers(uis, uid + 1)

RECURSIVE FlattenItems(_, _)
FlattenItems(uis, uid) ==
  IF uid >= Len(uis) THEN <<>>
  ELSE uis[uid + 1] \o FlattenItems(uis, uid + 1)

\* ------------------------------------------------- np.lexsort, np.unique
\* np.lexsort((keys,)): the 0-based positions of keys in stable ascending
\* order.
RECURSIVE LexsortFrom(_, _)
LexsortFrom(keys, left) ==
  IF left = {} THEN <<>>
  ELSE LET m == CHOOSE i \in left :
                  \A j \in left : keys[i] < keys[j] \/ (keys[i] = keys[j] /\ i <= j)
       IN  <<m - 1>> \o LexsortFrom(keys, left \ {m})

Lexsort(keys) == LexsortFrom(keys, 1..Len(keys))

\* a[idx] for an index array idx of 0-based positions.
Take(a, idx) == [i \in 1..Len(idx) |-> a[idx[i] + 1]]

\* np.unique(sorted, return_index=True, return_counts=True) on a sorted
\* array: the distinct values ascending, the 0-based position of the first
\* occurrence of each, and the number of occurrences of each.
RECURSIVE UniqueFrom(_, _)
UniqueFrom(a, pos) ==
  IF pos > Len(a) THEN <<>>
  ELSE LET c == Cardinality({j \in 1..Len(a) : a[j] = a[pos]})
       IN  << [value |-> a[pos], index |-> pos - 1, count |-> c] >>
             \o UniqueFrom(a, pos + c)

NpUnique(a) == UniqueFrom(a, 1)

\* ------------------------------------------------ SequenceInteractions
\* __init__ reads sequences.shape[1]: IndexError on a 1-D array.
SequenceInteractionsRaises(sequences) == Len(sequences.shape) < 2

\* Variant: T set from the width whenever a targets array is given.
SequenceInteractions_WidthAsT(user_ids, sequences, targets, length, tar_len) ==
  [user_ids  |-> user_ids,
   sequences |-> sequences,
   targets   |-> targets,
   length    |-> length,
   tarlen    |-> tar_len,
   L         |-> sequences.shape[2],
   T         |-> IF targets # <<>> THEN <<targets[1].shape[2]>> ELSE <<>>]

SequenceInteractions(user_ids, sequences, targets, length, tar_len) ==
  [user_ids  |-> user_ids,
   sequences |-> sequences,
   targets   |-> targets,
   length    |-> length,
   tarlen    |-> tar_len,
   L         |-> sequences.shape[2],
   T         |-> IF NpAny(targets) THEN <<targets[1].shape[2]>> ELSE <<>>]

\* ------------------------------------ _sliding_window, _generate_sequences
\* The one window the generator yields for a tensor.
_sliding_window(tensor, window_size) ==
  IF Len(tensor) - window_size >= 0
  THEN PySlice(tensor, Len(tensor) - window_size, Len(tensor))
  ELSE NpPad(tensor, window_size - Len(tensor))

\* The (uid, seq) pairs in the order they are yielded.
_generate_sequences(uq, item_ids, max_sequence_length) ==
  [i \in 1..Len(uq) |->
     LET start_idx == uq[i].index
         stop_idx  == IF i >= Len(uq) THEN Len(item_ids) ELSE uq[i + 1].index
     IN  [uid |-> uq[i].value,
          seq |-> _sliding_window(PySlice(item_ids, start_idx, stop_idx),
                                  max_sequence_length)]]

\* ------------------------------------------------- Interactions.to_sequence
\* num_subsequences: the number of training rows allocated.
NumSubsequencesA(uq, max_sequence_length) ==
  LET RECURSIVE Sum(_)
      Sum(i) == IF i > Len(uq) THEN 0
                ELSE (IF uq[i].count >= max_sequence_length
                      THEN uq[i].count - max_sequence_length + 1
                      ELSE 1) + Sum(i + 1)
  IN  Sum(1)

\* The slices the loop body copies out of one yielded item_seq.
TestRowA(item_seq, sequence_length) == PyFrom(item_seq, 0 - sequence_length)
TargetRowA(item_seq, target_length) == PyFrom(item_seq, 0 - target_length)
\* Variant: the window taken from the end of item_seq, as the test row is.
WindowRowA_FromEnd(item_seq, sequence_length) == PyFrom(item_seq, 0 - sequence_length)
WindowRowA(item_seq, sequence_length) == PyUpTo(item_seq, sequence_length)

\* One iteration of the loop on the i-th yielded pair (i is 1-based here, the
\* source's i + 1); st holds the five arrays, _uid and whether an assignment
\* has raised.
LoopBodyA(st, i, pair, sequence_length, target_length) ==
  LET uid   == pair.uid
      fresh == st._uid # <<uid>>
      trow  == TestRowA(pair.seq, sequence_length)
      grow  == TargetRowA(pair.seq, target_length)
      wrow  == WindowRowA(pair.seq, sequence_length)
  IN  IF fresh /\ AssignRaises(sequence_length, trow) THEN [st EXCEPT !.raised = TRUE]
      ELSE IF AssignRaises(target_length, grow) THEN [st EXCEPT !.raised = TRUE]
      ELSE IF AssignRaises(sequence_length, wrow) THEN [st EXCEPT !.raised = TRUE]
      ELSE [raised            |-> FALSE,
            _uid              |-> <<uid>>,
            test_sequences    |-> IF fresh
                                  THEN [st.test_sequences EXCEPT
                                          ![uid + 1] = AssignRow(sequence_length, trow)]
                                  ELSE st.test_sequences,
            test_users        |-> IF fresh
                                  THEN [st.test_users EXCEPT ![uid + 1] = Written(uid)]
                                  ELSE st.test_users,
            sequences_targets |-> [st.sequences_targets EXCEPT
                                     ![i] = AssignRow(target_length, grow)],
            sequences         |-> [st.sequences EXCEPT
                                     ![i] = AssignRow(sequence_length, wrow)],
            sequence_users    |-> [st.sequence_users EXCEPT ![i] = Written(uid)]]

RECURSIVE LoopA(_, _, _, _, _)
LoopA(st, i, pairs, sequence_length, target_length) ==
  IF i > Len(pairs) \/ st.raised THEN st
  ELSE LoopA(LoopBodyA(st, i, pairs[i], sequence_length, target_length),
             i + 1, pairs, sequence_length, target_length)

\* What a call leaves behind: whether it raised, how many of the two slot
\* assignments it executed before that, and the tables it assigned.
Outcome(raised, installed, train, test) ==
  [raised |-> raised, installed |-> installed, train |-> train, test |-> test]

\* The two assignments that end both operations: each constructs a table,
\* which may raise, and then stores it.
InstallTables(seq_users, seqs, targets, length, tar_len, t_users, t_seqs, t_length) ==
  IF SequenceInteractionsRaises(seqs) THEN Outcome(TRUE, 0, <<>>, <<>>)
  ELSE LET train == SequenceInteractions(seq_users, seqs, targets, length, tar_len)
       IN  IF SequenceInteractionsRaises(t_seqs) THEN Outcome(TRUE, 1, <<train>>, <<>>)
           ELSE Outcome(FALSE, 2, <<train>>,
                        <<SequenceInteractions(t_users, t_seqs, <<>>, t_length, <<>>)>>)

to_sequence(user_ids, item_ids, num_users, sequence_length, target_length) ==
  LET max_sequence_length == sequence_length + target_length
      sort_indices == Lexsort(user_ids)
      uq == NpUnique(Take(user_ids, sort_indices))
      sorted_items == Take(item_ids, sort_indices)
      num_subsequences == NumSubsequencesA(uq, max_sequence_length)
  IN  IF \/ NpZerosRaises(num_subsequences, sequence_length)
         \/ NpZerosRaises(num_subsequences, target_length)
         \/ NpZerosRaises(num_users, sequence_length)
      THEN Outcome(TRUE, 0, <<>>, <<>>)
      ELSE
        LET st0 == [raised            |-> FALSE,
                    _uid              |-> <<>>,
                    sequences         |-> NpZeros(num_subsequences, sequence_length).rows,
                    sequences_targets |-> NpZeros(num_subsequences, target_length).rows,
                    sequence_users    |-> NpEmpty(num_subsequences),
                    test_sequences    |-> NpZeros(num_users, sequence_length).rows,
                    test_users        |-> NpEmpty(num_users)]
            st == LoopA(st0, 1,
                        _generate_sequences(uq, sorted_items, max_sequence_length),
                        sequence_length, target_length)
        IN  IF st.raised THEN Outcome(TRUE, 0, <<>>, <<>>)
            ELSE InstallTables(
                   st.sequence_users,
                   [shape |-> <<num_subsequences, sequence_length>>, rows |-> st.sequences],
                   << [shape |-> <<num_subsequences, target_length>>,
                       rows |-> st.sequences_targets] >>,
                   <<>>, <<>>,
                   st.test_users,
                   [shape |-> <<num_users, sequence_length>>, rows |-> st.test_sequences],
                   <<>>)

\* ---------------------------------------------- Interactions.to_newsequence
\* one_sequence: a user's items, cut to the last sequence_length of them
\* when there are more.
\* Variant: a long history cut to its first sequence_length items.
OneSequenceB_FirstItems(item_ids, start_idx, stop_idx, sequence_length) ==
  PyUpTo(PySlice(item_ids, start_idx, stop_idx), sequence_length)

OneSequenceB(item_ids, start_idx, stop_idx, sequence_length) ==
  LET one_sequence == PySlice(item_ids, start_idx, stop_idx)
  IN  IF Len(one_sequence) > sequence_length
      THEN PyFrom(one_sequence, 0 - sequence_length)
      ELSE one_sequence

\* The slices of one iteration of the inner loop.
SubSeqB(one_sequence, train_len) == PySlice(one_sequence, 0, train_len + 1)
TargetSubB(one_sequence, train_len, target_length) ==
  PySlice(one_sequence, train_len + 1, train_len + 1 + target_length)

\* The inner loop for one user: the rows appended for train_len in
\* range(len(one_sequence) - 1), or that a pad raised.
TrainRowsB(user_id, one_sequence, sequence_length, target_length) ==
  LET n == Max(Len(one_sequence) - 1, 0)
      target_sub(train_len) == TargetSubB(one_sequence, train_len, target_length)
  IN  [raised |-> \E train_len \in 0..(n - 1) :
                    \/ NpPadRaises(sequence_length - train_len - 1)
                    \/ NpPadRaises(target_length - Len(target_sub(train_len))),
       rows   |-> [k \in 1..n |->
                     LET train_len == k - 1
                     IN  [user       |-> user_id,
                          sub_seq    |-> NpPad(SubSeqB(one_sequence, train_len),
                                               sequence_length - train_len - 1),
                          length     |-> train_len + 1,
                          target_sub |-> NpPad(target_sub(train_len),
                                               target_length - Len(target_sub(train_len))),
                          target_len |-> Len(target_sub(train_len))]]]

\* The outer loop from user i on (1-based): the lists it appends to.
RECURSIVE LoopB(_, _, _, _, _)
LoopB(i, uq, item_ids, sequence_length, target_length) ==
  IF i > Len(uq)
  THEN [raised |-> FALSE, train |-> <<>>, test_users |-> <<>>,
        test_sequences |-> <<>>, test_seq_length |-> <<>>]
  ELSE
    LET start_idx    == uq[i].index
        stop_idx     == IF i + 1 > Len(uq) THEN Len(item_ids) ELSE uq[i + 1].index
        one_sequence == OneSequenceB(item_ids, start_idx, stop_idx, sequence_length)
        inner        == TrainRowsB(uq[i].value, one_sequence, sequence_length, target_length)
    IN  IF NpPadRaises(sequence_length - Len(one_sequence)) \/ inner.raised
        THEN [raised |-> TRUE, train |-> <<>>, test_users |-> <<>>,
              test_sequences |-> <<>>, test_seq_length |-> <<>>]
        ELSE
          LET rest == LoopB(i + 1, uq, item_ids, sequence_length, target_length)
          IN  [raised          |-> rest.raised,
               train           |-> inner.rows \o rest.train,
               test_users      |-> <<Written(uq[i].value)>> \o rest.test_users,
               test_sequences  |-> <<NpPad(one_sequence,
                                           sequence_length - Len(one_sequence))>>
                                     \o rest.test_sequences,
               test_seq_length |-> <<Len(one_sequence)>> \o rest.test_seq_length]

\* Variant: the rows joined end to end (np.concatenate) into a 1-D array.
TestSequencesB_Joined(rows) ==
  [shape |-> <<Len(rows) * (IF Len(rows) = 0 THEN 0 ELSE Len(rows[1]))>>,
   rows  |-> <<>>]

\* test_sequences = np.array(test_sequences)
TestSequencesB(rows) == NpArray(rows)

to_newsequence(user_ids, item_ids, num_users, sequence_length, target_length) ==
  LET sort_indices == Lexsort(user_ids)
      uq == NpUnique(Take(user_ids, sort_indices))
      sorted_items == Take(item_ids, sort_indices)
      lp == LoopB(1, uq, sorted_items, sequence_length, target_length)
      col(f(_)) == [k \in 1..Len(lp.train) |-> f(lp.train[k])]
      user_of(r) == Written(r.user)
      sub_seq_of(r) == r.sub_seq
      length_of(r) == r.length
      target_sub_of(r) == r.target_sub
      target_len_of(r) == r.target_len
  IN  IF lp.raised THEN Outcome(TRUE, 0, <<>>, <<>>)
      ELSE InstallTables(col(user_of),
                         NpArray(col(sub_seq_of)),
                         <<NpArray(col(target_sub_of))>>,
                         <<col(length_of)>>,
                         <<col(target_len_of)>>,
                         lp.test_users,
                         TestSequencesB(lp.test_sequences),
                         <<lp.test_seq_length>>)

\* ------------------------------------------------------------------- state
VARIABLES
  user_ids,        \* Interactions.user_ids
  item_ids,        \* Interactions.item_ids
  num_users,       \* Interactions.num_users
  sequences,       \* Interactions.sequences: <<>> (None) or <<table>>
  test_sequences,  \* Interactions.test_sequences: <<>> (None) or <<table>>
  sequences_by,    \* the call that assigned `sequences`, <<>> if none has
  test_sequences_by, \* the call that assigned `test_sequences`
  last             \* the most recent call: its operation, whether its arguments
                   \* were both >= 1, and whether it raised

vars == <<user_ids, item_ids, num_users, sequences, test_sequences,
          sequences_by, test_sequences_by, last>>

Call(op, sequence_length, target_length) ==
  [op |-> op, L |-> sequence_length, T |-> target_length]

\* Interactions(user_item_sequence, num_users, num_items) for a log of
\* NumUsers users.
Init ==
  \E user_item_sequence \in Logs :
    /\ user_ids = FlattenUsers(user_item_sequence, 0)
    /\ item_ids = FlattenItems(user_item_sequence, 0)
    /\ num_users = Len(user_item_sequence)
    /\ sequences = <<>>
    /\ test_sequences = <<>>
    /\ sequences_by = <<>>
    /\ test_sequences_by = <<>>
    /\ last = [op |-> "none", args_ok |-> TRUE, raised |-> FALSE]

\* The effect of a finished call on the object.
Finish(call, out) ==
  /\ sequences' = IF out.installed >= 1 THEN out.train ELSE sequences
  /\ sequences_by' = IF out.installed >= 1 THEN <<call>> ELSE sequences_by
  /\ test_sequences' = IF out.installed >= 2 THEN out.test ELSE test_sequences
  /\ test_sequences_by' = IF out.installed >= 2 THEN <<call>> ELSE test_sequences_by
  /\ last' = [op |-> call.op, args_ok |-> call.L >= 1 /\ call.T >= 1,
              raised |-> out.raised]
  /\ UNCHANGED <<user_ids, item_ids, num_users>>

ToSequence ==
  \E sequence_length \in ArgL, target_length \in ArgT :
    Finish(Call("to_sequence", sequence_length, target_length),
           to_sequence(user_ids, item_ids, num_users,
                       sequence_length, target_length))

ToNewSequence ==
  \E sequence_length \in ArgL, target_length \in ArgT :
    Finish(Call("to_newsequence", sequence_length, target_length),
           to_newsequence(user_ids, item_ids, num_users,
                          sequence_length, target_length))

Next == ToSequence \/ ToNewSequence

\* Any number of calls on one object.
Spec == Init /\ [][Next]_vars

\* ------------------------------------------------- vocabulary of the claims
Users == 0..(num_users - 1)

\* The ordered history of user u, read off the log.
RECURSIVE HistoryFrom(_, _)
HistoryFrom(u, j) ==
  IF j > Len(user_ids) THEN <<>>
  ELSE (IF user_ids[j] = u THEN <<item_ids[j]>> ELSE <<>>) \o HistoryFrom(u, j + 1)

History(u) == HistoryFrom(u, 1)

\* h[a:b] for 0 <= a <= b <= len(h)
Sub(h, a, b) == [k \in 1..(b - a) |-> h[a + k]]

LeftPadded(s, w) == Zeros(w - Len(s)) \o s
RightPadded(s, w) == s \o Zeros(w - Len(s))

NonZero(s) == SelectSeq(s, LAMBDA x : x # 0)

IsContiguousPart(s, h) ==
  \E a \in 0..Len(h) : \E b \in a..Len(h) : s = Sub(h, a, b)

\* The values a user id cell may hold. An unwritten cell may hold any int64:
\* every user id, or a value that is no user's id, for which num_users stands
\* (no user has it, so its history is empty like that of any other such value).
MayHold(cell) == IF cell = <<>> THEN 0..num_users ELSE {cell[1]}

\* The rows of a training table that carry user id u, in table order, when
\* the unwritten user id cells hold u (unwritten_hold_u) or another value.
TableRow(tab, u, i) ==
  [user   |-> u,
   window |-> tab.sequences.rows[i],
   target |-> tab.targets[1].rows[i]]

RECURSIVE RowsOfFrom(_, _, _, _)
RowsOfFrom(tab, u, unwritten_hold_u, i) ==
  IF i > Len(tab.user_ids) THEN <<>>
  ELSE (IF \/ tab.user_ids[i] = <<u>>
           \/ (tab.user_ids[i] = <<>> /\ unwritten_hold_u)
        THEN <<TableRow(tab, u, i)>> ELSE <<>>)
         \o RowsOfFrom(tab, u, unwritten_hold_u, i + 1)

RowsOf(tab, u, unwritten_hold_u) == RowsOfFrom(tab, u, unwritten_hold_u, 1)

\* The slot holds a table that a call of op with both arguments >= 1 stored.
TrainFrom(op) ==
  /\ sequences # <<>>
  /\ sequences_by[1].op = op
  /\ sequences_by[1].L >= 1
  /\ sequences_by[1].T >= 1

TestFrom(op) ==
  /\ test_sequences # <<>>
  /\ test_sequences_by[1].op = op
  /\ test_sequences_by[1].L >= 1
  /\ test_sequences_by[1].T >= 1

\* ------------------------------------------------------------------ claims
\* C1: after to_sequence(L, T) with L, T >= 1, a user whose history h has
\* length c >= M = L + T has exactly c - M + 1 training rows, one per end
\* offset e in M..c in increasing order, with window h[e-M : e-M+L] and
\* target h[e-T : e].
C1_SlidingRows ==
  TrainFrom("to_sequence") =>
    \A u \in Users :
      LET h == History(u)
          c == Len(h)
          L == sequences_by[1].L
          T == sequences_by[1].T
          M == L + T
      IN  c >= M =>
            \A unwritten_hold_u \in BOOLEAN :
              RowsOf(sequences[1], u, unwritten_hold_u) =
              [k \in 1..(c - M + 1) |->
                 LET e == M + k - 1
                 IN  [user   |-> u,
                      window |-> Sub(h, e - M, e - M + L),
                      target |-> Sub(h, e - T, e)]]

\* C2: after to_sequence(L, T) with L, T >= 1, a user whose history h has
\* length c < M (c = 0 included) has exactly one training row: h left-padded
\* with zeros to width M, split into the first L and the last T entries.
C2_ShortHistoryRow ==
  TrainFrom("to_sequence") =>
    \A u \in Users :
      LET h == History(u)
          L == sequences_by[1].L
          T == sequences_by[1].T
          M == L + T
      IN  Len(h) < M =>
            \A unwritten_hold_u \in BOOLEAN :
              RowsOf(sequences[1], u, unwritten_hold_u) =
              << [user   |-> u,
                  window |-> Sub(LeftPadded(h, M), 0, L),
                  target |-> Sub(LeftPadded(h, M), L, M)] >>

\* C3: after to_sequence(L, T) with L, T >= 1 the evaluation table has
\* num_users rows; row u carries user id u and the last L items of u's
\* history, left-padded with zeros to width L.
C3_EvaluationRows ==
  TestFrom("to_sequence") =>
    LET tab == test_sequences[1]
        L == test_sequences_by[1].L
    IN  /\ Len(tab.user_ids) = num_users
        /\ Len(tab.sequences.rows) = num_users
        /\ \A u \in Users :
             LET h == History(u)
                 c == Len(h)
             IN  /\ tab.user_ids[u + 1] = <<u>>
                 /\ tab.sequences.rows[u + 1] = LeftPadded(Sub(h, c - Min(c, L), c), L)

\* The training rows to_newsequence is to produce for user u: one per prefix
\* length p in 1..c'-1 of h' = the last c' = min(c, L) items of h.
PrefixRows(u, L, T) ==
  LET h  == History(u)
      c  == Len(h)
      cc == Min(c, L)
      hh == Sub(h, c - cc, c)
  IN  [p \in 1..Max(cc - 1, 0) |->
         [user          |-> <<u>>,
          window        |-> RightPadded(Sub(hh, 0, p), L),
          window_length |-> p,
          target        |-> RightPadded(Sub(hh, p, Min(p + T, cc)), T),
          target_length |-> Min(T, cc - p)]]

RECURSIVE PrefixRowsFrom(_, _, _)
PrefixRowsFrom(u, L, T) ==
  IF u >= num_users THEN <<>>
  ELSE PrefixRows(u, L, T) \o PrefixRowsFrom(u + 1, L, T)

\* C4: after to_newsequence(L, T) with L, T >= 1 the training table is, user
\* by user in ascending id order, the rows for p = 1..c'-1 in increasing p:
\* window h'[0:p] and target h'[p:p+T], both right-padded with zeros, with
\* window_length p and target_length min(T, c'-p).
C4_PrefixRows ==
  TrainFrom("to_newsequence") =>
    LET tab == sequences[1]
    IN  /\ tab.length # <<>>
        /\ tab.tarlen # <<>>
        /\ [i \in 1..Len(tab.user_ids) |->
              [user          |-> tab.user_ids[i],
               window        |-> tab.sequences.rows[i],
               window_length |-> tab.length[1][i],
               target        |-> tab.targets[1].rows[i],
               target_length |-> tab.tarlen[1][i]]]
             = PrefixRowsFrom(0, sequences_by[1].L, sequences_by[1].T)

\* A training table of to_newsequence with rows of two users, one of them
\* with a history cut to its last L items, and a target shorter than T.
C4_Witness ==
  /\ TrainFrom("to_newsequence")
  /\ \E i, j \in 1..Len(sequences[1].user_ids) :
       /\ sequences[1].user_ids[i] # sequences[1].user_ids[j]
       /\ Len(History(sequences[1].user_ids[i][1])) > sequences_by[1].L
       /\ sequences[1].tarlen[1][j] < sequences_by[1].T

\* C5: a to_newsequence(L, T) call with L, T >= 1 completes, and its
\* evaluation table has one row for every user 0..num_users-1: h'
\* right-padded with zeros to width L, with recorded length c' = min(c, L).
C5_EvaluationRowPerUser ==
  (last.op = "to_newsequence" /\ last.args_ok) =>
    /\ ~last.raised
    /\ TestFrom("to_newsequence")
    /\ LET tab == test_sequences[1]
           L == test_sequences_by[1].L
       IN  /\ Len(tab.user_ids) = num_users
           /\ \A u \in Users :
                LET h == History(u)
                    c == Len(h)
                IN  /\ tab.user_ids[u + 1] = <<u>>
                    /\ tab.sequences.rows[u + 1]
                         = RightPadded(Sub(h, c - Min(c, L), c), L)
                    /\ tab.length[1][u + 1] = Min(c, L)

\* The shape numpy reports for a table's arrays agrees with its rows.
ShapeOK(tab, L) ==
  /\ tab.sequences.shape = <<Len(tab.user_ids), L>>
  /\ Len(tab.sequences.rows) = Len(tab.user_ids)
  /\ \A i \in 1..Len(tab.sequences.rows) : Len(tab.sequences.rows[i]) = L

TargetShapeOK(tab, T) ==
  tab.targets # <<>> =>
    /\ tab.targets[1].shape = <<Len(tab.user_ids), T>>
    /\ Len(tab.targets[1].rows) = Len(tab.user_ids)
    /\ \A i \in 1..Len(tab.targets[1].rows) : Len(tab.targets[1].rows[i]) = T

\* C6: any call of either operation with L, T >= 1 yields tables with
\* windows.shape = (num_rows, L), targets.shape = (num_rows, T) when targets
\* are present, and as many window rows as user ids.
C6_ShapeInvariant ==
  (last.op # "none" /\ last.args_ok) =>
    /\ ~last.raised
    /\ sequences # <<>>
    /\ test_sequences # <<>>
    /\ ShapeOK(sequences[1], sequences_by[1].L)
    /\ TargetShapeOK(sequences[1], sequences_by[1].T)
    /\ ShapeOK(test_sequences[1], test_sequences_by[1].L)
    /\ TargetShapeOK(test_sequences[1], test_sequences_by[1].T)

\* C7: a call that raises leaves both slots as they were, and a call that
\* returns leaves both slots holding tables stored by that one call.
C7_NoPartialUpdate ==
  [][/\ last'.raised => (sequences' = sequences /\ test_sequences' = test_sequences)
     /\ ~last'.raised =>
          /\ sequences' # <<>>
          /\ test_sequences' # <<>>
          /\ sequences_by' = test_sequences_by'
          /\ sequences_by'[1].op = last'.op
          /\ (sequences_by'[1].L >= 1 /\ sequences_by'[1].T >= 1) = last'.args_ok]_vars

\* A call has raised on an object that holds the tables of an earlier call.
C7_Witness ==
  /\ last.raised
  /\ sequences # <<>>
  /\ test_sequences # <<>>
  /\ sequences_by[1].op # last.op

\* C8: a call of either operation with sequence_length < 1 or
\* target_length < 1 raises; it never returns with tables stored.
C8_InvalidArgumentRaises ==
  (last.op # "none" /\ ~last.args_ok) => last.raised

\* C9: in every training row of either operation, the non-zero window
\* entries followed by the non-zero target entries are a contiguous part of
\* the history of the row's user, in order.
C9_ContentPreserved ==
  sequences # <<>> =>
    \A i \in 1..Len(sequences[1].user_ids) :
      \A u \in MayHold(sequences[1].user_ids[i]) :
        IsContiguousPart(NonZero(sequences[1].sequences.rows[i])
                           \o NonZero(sequences[1].targets[1].rows[i]),
                         History(u))

\* A training row that carries items in its window and in its target, with
\* padding next to the items of the target.
C9_WitnessRow(i) ==
  /\ NonZero(sequences[1].sequences.rows[i]) # <<>>
  /\ NonZero(sequences[1].targets[1].rows[i]) # <<>>
  /\ Len(NonZero(sequences[1].sequences.rows[i]))
       + Len(NonZero(sequences[1].targets[1].rows[i])) >= 3
  /\ \E j \in 1..Len(sequences[1].targets[1].rows[i]) :
       sequences[1].targets[1].rows[i][j] = 0

C9_Witness ==
  /\ sequences # <<>>
  /\ sequences_by[1].op = "to_sequence"
  /\ \E i \in 1..Len(sequences[1].user_ids) : C9_WitnessRow(i)

\* C10: a table's T is None exactly when it has no targets array or the
\* array has no non-zero entry, and is the targets' width otherwise; its L is
\* the windows' width.
AttributesOK(tab) ==
  LET nonzero == /\ tab.targets # <<>>
                 /\ \E i \in 1..Len(tab.targets[1].rows) :
                      tab.targets[1].rows[i] # Zeros(Len(tab.targets[1].rows[i]))
  IN  /\ tab.L = tab.sequences.shape[2]
      /\ nonzero => tab.T = <<tab.targets[1].shape[2]>>
      /\ ~nonzero => tab.T = <<>>

C10_Attributes ==
  /\ sequences # <<>> => AttributesOK(sequences[1])
  /\ test_sequences # <<>> => AttributesOK(test_sequences[1])

\* A training table with a row of targets of width T, all of them padding,
\* that reports T = None.
C10_Witness ==
  /\ TrainFrom("to_sequence")
  /\ sequences[1].targets # <<>>
  /\ sequences[1].targets[1].shape[1] >= 1
  /\ sequences[1].targets[1].shape[2] = sequences_by[1].T
  /\ sequences[1].T = <<>>
====
